---------------------------- MODULE Spec2Model ----------------------------
(***************************************************************************)
(* A model of the pubsub Publisher of business/publisher/pubsub.go (Spec,  *)
(* FairSpec) and of WrapError and ErrorCollector of package utils          *)
(* (ErrSpec).  The two parts share no state: the steps of one leave the    *)
(* variables of the other unchanged.                                       *)
(*                                                                         *)
(* The state is the Publisher (its RWMutex, its buffer size and its        *)
(* subscribers map), the channels SubscribeTopic has made (buffer          *)
(* contents and closed flag), the callers of the Publisher's methods       *)
(* (each a goroutine with a position in the method it is running) and the  *)
(* SendTopic goroutines a Publish has started.                             *)
(*                                                                         *)
(* Go semantics the model relies on:                                       *)
(*  - sync.RWMutex.Lock is exclusive; a caller at Lock waits until the     *)
(*    mutex is free and changes nothing while it waits, so a call starts   *)
(*    in the model with the step that takes the lock; only for Publish,    *)
(*    whose caller's blocking time is modelled, is the wait at Lock a      *)
(*    state of its own;                                                    *)
(*  - a select polls its cases once; if several can proceed one of them    *)
(*    is chosen at random; with a default case it never blocks; without    *)
(*    one and with no case ready the goroutine parks on all its channels   *)
(*    and the first channel event that reaches it decides the select;      *)
(*  - a receive from a full buffered channel with a parked sender takes    *)
(*    the head of the buffer and moves the sender's value into the buffer  *)
(*    in the same step;                                                    *)
(*  - a receive from a closed channel first drains the buffer, then        *)
(*    yields the zero value; close of a closed channel and send on a       *)
(*    closed channel panic;                                                *)
(*  - time.After(d) with d <= 0 may already have fired when the select     *)
(*    polls (it always has with the synchronous timer channels of Go 1.23  *)
(*    and later); with d >= 1 second it has not fired at the first poll:   *)
(*    a SendTopic goroutine reaches its select within the second in which  *)
(*    Publish started it;                                                  *)
(*  - an interface value that holds a nil pointer is not nil (err != nil   *)
(*    is true of it), and reading a field through the nil pointer panics.  *)
(*                                                                         *)
(* tk and shut are history variables: no step reads them to decide what    *)
(* it does.                                                                *)
(***************************************************************************)
EXTENDS Integers, Sequences, FiniteSets, TLC

\* ---------------------------------------------------------------- bounds

\* Number of goroutines that call the Publisher's methods.
NumProcs == 2

\* Number of channels SubscribeTopic may make in one run.
MaxChans == 2

\* Largest buffer size NewPublisher is called with.
MaxBuffer == 2

\* Largest Expire (seconds) of a published message.
MaxExpire == 1

\* Number of Publish calls in one run.
MaxPublish == 3

\* Number of ErrorCollector.Add calls in one run.
MaxAdds == 3

Procs == 1..NumProcs

Chans == 1..MaxChans

\* A channel a caller has made itself (make(chan *Message, n)) and put one
\* message in; it is never passed to SubscribeTopic.
Foreign == 0

\* ------------------------------------------------------------- messages

Events == {"a", "b"}

Expires == (-1)..MaxExpire

\* A *Message: the fields the Publisher reads (Expire) and the filters read
\* (Event).  The same message may be published any number of times.
Messages == [Event : Events, Expire : Expires]

NoMsg == [Event |-> "", Expire |-> 0]

\* The message in the channel Foreign.
ForeignMsg == [Event |-> "a", Expire |-> 0]

\* A nil topicFunc.
Nil == "nil"

\* The non-nil topicFuncs of the model: func(m) bool { return m.Event == e }.
Filters == {"a"}

Topics == {Nil} \cup Filters

\* topic(v) for a non-nil topic.
Accepts(topic, m) == m.Event = topic

VARIABLES
    buffer,       \* Publisher.buffer
    subscribers,  \* Publisher.subscribers: a function channel -> topic
    mutex,        \* Publisher.m: 0 when free, else the caller that holds it
    nalloc,       \* the channels 1..nalloc have been made
    buf,          \* buf[c]: the buffered messages of channel c, oldest first
    closed,       \* closed[c]: channel c has been closed
    pc,           \* pc[p]: where caller p is
    msg,          \* msg[p]: the message v of the Publish p is running
    todo,         \* todo[p]: the map entries p's range loop has yet to produce
    snap,         \* snap[p]: the map's keys when p took the lock
    task,         \* task[p][c]: the SendTopic goroutine p's Publish started for c
    panicked,     \* "" or the runtime panic that ended the program
    npub,         \* the number of Publish calls made so far
    blocked,      \* blocked[p]: the seconds p's Publish call has been running
    tk,           \* history: tk[p], the rank of p's Publish among the lock takers
    shut,         \* history: 0 until a Close has returned, then 1, and 2 once
                  \* a Close that has returned took a subscription out
    errors,       \* ErrorCollector.errors
    added,        \* history: the arguments of the Add calls so far
    wrapped       \* the last WrapError call: its arguments and its result

\* The state of the error utilities (package utils).
errvars == <<errors, added, wrapped>>

\* The state of the publisher (package publisher) and its history.
pubvars == <<buffer, subscribers, mutex, nalloc, buf, closed, pc, msg, todo, snap,
             task, panicked, npub, blocked, tk, shut>>

vars == <<pubvars, errvars>>

\* wrapped before any WrapError call.
NoCall == [called |-> FALSE, err |-> "", code |-> "", message |-> "",
           panicked |-> FALSE, ret |-> ""]

NoTasks == [c \in {} |-> [topic |-> Nil, st |-> "start", elapsed |-> 0]]

\* The states of a SendTopic goroutine in which it has returned (wg.Done).
Done == {"sent", "skip", "timeout"}

\* The SendTopic goroutines parked in their select on channel c.
Waiters(c) == {p \in Procs : c \in DOMAIN task[p] /\ task[p][c].st = "wait"}

\* The program runs (no goroutine has panicked).
Alive == panicked = ""

\* NewPublisher(buffer), for a buffer size of at least 1 (buffered queues):
\* an empty map, no channel made, every caller idle.
Init ==
    /\ buffer \in 1..MaxBuffer
    /\ subscribers = [c \in {} |-> Nil]
    /\ mutex = 0
    /\ nalloc = 0
    /\ buf = [c \in Chans \cup {Foreign} |->
                 IF c = Foreign THEN <<ForeignMsg>> ELSE <<>>]
    /\ closed = [c \in Chans \cup {Foreign} |-> FALSE]
    /\ pc = [p \in Procs |-> "idle"]
    /\ msg = [p \in Procs |-> NoMsg]
    /\ todo = [p \in Procs |-> {}]
    /\ snap = [p \in Procs |-> {}]
    /\ task = [p \in Procs |-> NoTasks]
    /\ panicked = ""
    /\ npub = 0
    /\ blocked = [p \in Procs |-> 0]
    /\ tk = [p \in Procs |-> 0]
    /\ shut = 0
    /\ errors = <<>>
    /\ added = <<>>
    /\ wrapped = NoCall

\* ------------------------------------------------------------- history

\* The number of Publish calls that have taken the mutex so far: the calls
\* made less the ones still blocked in p.m.Lock().
Acquired == npub - Cardinality({q \in Procs : pc[q] = "Lock"})

\* ------------------------------------------------------ channel operations

\* A receive from channel c that can proceed (buffer not empty, or closed).
\* With a sender parked on the full buffer, the sender's value enters the
\* buffer in the same step and its select is decided for the send case.
ChanRecv(c) ==
    IF Len(buf[c]) = 0
    THEN UNCHANGED <<buf, task>>
    ELSE IF Waiters(c) = {}
    THEN /\ buf' = [buf EXCEPT ![c] = Tail(buf[c])]
         /\ UNCHANGED task
    ELSE \E w \in Waiters(c) :
            /\ buf' = [buf EXCEPT ![c] = Append(Tail(buf[c]), msg[w])]
            /\ task' = [task EXCEPT ![w][c].st = "sent"]

\* close(c).
ChanClose(c) ==
    /\ closed' = [closed EXCEPT ![c] = TRUE]
    /\ panicked' = IF closed[c] THEN "close of closed channel"
                   ELSE IF Waiters(c) # {} THEN "send on closed channel"
                   ELSE panicked

\* select { case <-sub: default: close(sub) } of Evict and Close.
SelectRecvOrClose(c) ==
    IF Len(buf[c]) > 0 \/ closed[c]
    THEN ChanRecv(c) /\ UNCHANGED <<closed, panicked>>
    ELSE ChanClose(c) /\ UNCHANGED <<buf, task>>


\* --------------------------------------------------------------- callers

\* SubscribeTopic as it would be if it registered nil whatever topic it got
\* (p.subscribers[ch] = nil).
SubscribeTopicNoFilter(p, topic) ==
    /\ Alive
    /\ pc[p] = "idle"
    /\ mutex = 0
    /\ nalloc < MaxChans
    /\ nalloc' = nalloc + 1
    /\ subscribers' = [c \in DOMAIN subscribers \cup {nalloc + 1} |->
                          IF c = nalloc + 1 THEN Nil ELSE subscribers[c]]
    /\ UNCHANGED <<buffer, mutex, buf, closed, pc, msg, todo, snap, task, panicked, npub, blocked, tk, shut, errvars>>

\* SubscribeTopic as it would be if it made its channel once and handed the
\* same one out again (a channel kept in a variable instead of a make per call).
SubscribeTopicReuse(p, topic) ==
    /\ Alive
    /\ pc[p] = "idle"
    /\ mutex = 0
    /\ nalloc < MaxChans
    /\ nalloc' = IF nalloc = 0 THEN 1 ELSE nalloc
    /\ subscribers' = [c \in DOMAIN subscribers \cup {1} |->
                          IF c = 1 THEN topic ELSE subscribers[c]]
    /\ UNCHANGED <<buffer, mutex, buf, closed, pc, msg, todo, snap, task, panicked, npub, blocked, tk, shut, errvars>>

\* SubscribeTopic(topic): ch := make(chan *Message, p.buffer), then under the
\* lock p.subscribers[ch] = topic.
SubscribeTopic(p, topic) ==
    /\ Alive
    /\ pc[p] = "idle"
    /\ mutex = 0
    /\ nalloc < MaxChans
    /\ nalloc' = nalloc + 1
    /\ subscribers' = [c \in DOMAIN subscribers \cup {nalloc + 1} |->
                          IF c = nalloc + 1 THEN topic ELSE subscribers[c]]
    /\ UNCHANGED <<buffer, mutex, buf, closed, pc, msg, todo, snap, task, panicked, npub, blocked, tk, shut, errvars>>

\* Subscribe() is SubscribeTopic(nil).
Subscribe(p) == SubscribeTopic(p, Nil)

\* Evict as a version without the map lookup and the select would be:
\* delete(p.subscribers, sub); close(sub).
EvictCloseAlways(p, sub) ==
    /\ Alive
    /\ pc[p] = "idle"
    /\ mutex = 0
    /\ sub \in {Foreign} \cup 1..nalloc
    /\ subscribers' = [c \in DOMAIN subscribers \ {sub} |-> subscribers[c]]
    /\ ChanClose(sub)
    /\ UNCHANGED <<buffer, mutex, nalloc, buf, pc, msg, todo, snap, task, npub, blocked, tk, shut, errvars>>

\* Evict as it would be without the map lookup (if _, exists := ...): delete
\* and select whether or not sub is registered.
EvictNoCheck(p, sub) ==
    /\ Alive
    /\ pc[p] = "idle"
    /\ mutex = 0
    /\ sub \in {Foreign} \cup 1..nalloc
    /\ subscribers' = [c \in DOMAIN subscribers \ {sub} |-> subscribers[c]]
    /\ SelectRecvOrClose(sub)
    /\ UNCHANGED <<buffer, mutex, nalloc, pc, msg, todo, snap, npub, blocked, tk, shut, errvars>>

\* Evict as it would be if it emptied the registry on a hit
\* (clear(p.subscribers) for delete(p.subscribers, sub)).
EvictClearsAll(p, sub) ==
    /\ Alive
    /\ pc[p] = "idle"
    /\ mutex = 0
    /\ sub \in {Foreign} \cup 1..nalloc
    /\ IF sub \in DOMAIN subscribers
       THEN /\ subscribers' = [c \in {} |-> Nil]
            /\ SelectRecvOrClose(sub)
       ELSE UNCHANGED <<subscribers, buf, closed, task, panicked>>
    /\ UNCHANGED <<buffer, mutex, nalloc, pc, msg, todo, snap, npub, blocked, tk, shut, errvars>>

\* Evict(sub), all of it under the lock: if sub is in the map, delete it and
\* run the select.  sub is a channel SubscribeTopic returned, or Foreign.
Evict(p, sub) ==
    /\ Alive
    /\ pc[p] = "idle"
    /\ mutex = 0
    /\ sub \in {Foreign} \cup 1..nalloc
    /\ IF sub \in DOMAIN subscribers
       THEN /\ subscribers' = [c \in DOMAIN subscribers \ {sub} |-> subscribers[c]]
            /\ SelectRecvOrClose(sub)
       ELSE UNCHANGED <<subscribers, buf, closed, task, panicked>>
    /\ UNCHANGED <<buffer, mutex, nalloc, pc, msg, todo, snap, npub, blocked, tk, shut, errvars>>

\* Close(): p.m.Lock() and the start of the range over p.subscribers.
Close(p) ==
    /\ Alive
    /\ pc[p] = "idle"
    /\ mutex = 0
    /\ mutex' = p
    /\ todo' = [todo EXCEPT ![p] = DOMAIN subscribers]
    /\ snap' = [snap EXCEPT ![p] = DOMAIN subscribers]
    /\ pc' = [pc EXCEPT ![p] = "CloseLoop"]
    /\ UNCHANGED <<buffer, subscribers, nalloc, buf, closed, msg, task, panicked, npub, blocked, tk, shut, errvars>>

\* CloseIter as it would be without delete(p.subscribers, sub).
CloseIterNoDelete(p, sub) ==
    /\ Alive
    /\ pc[p] = "CloseLoop"
    /\ sub \in todo[p]
    /\ SelectRecvOrClose(sub)
    /\ todo' = [todo EXCEPT ![p] = todo[p] \ {sub}]
    /\ UNCHANGED <<buffer, subscribers, mutex, nalloc, pc, msg, snap, npub, blocked, tk, shut, errvars>>

\* Close: one iteration of the range loop, for an entry the loop has not
\* produced yet (Go ranges over a map in no particular order): delete it and
\* run the select.
CloseIter(p, sub) ==
    /\ Alive
    /\ pc[p] = "CloseLoop"
    /\ sub \in todo[p]
    /\ subscribers' = [c \in DOMAIN subscribers \ {sub} |-> subscribers[c]]
    /\ SelectRecvOrClose(sub)
    /\ todo' = [todo EXCEPT ![p] = todo[p] \ {sub}]
    /\ UNCHANGED <<buffer, mutex, nalloc, pc, msg, snap, npub, blocked, tk, shut, errvars>>

\* Close: the range loop is over; the deferred Unlock ends the call.
CloseReturn(p) ==
    /\ Alive
    /\ pc[p] = "CloseLoop"
    /\ todo[p] = {}
    /\ mutex' = 0
    /\ snap' = [snap EXCEPT ![p] = {}]
    /\ pc' = [pc EXCEPT ![p] = "idle"]
    /\ shut' = IF snap[p] # {} THEN 2 ELSE IF shut = 0 THEN 1 ELSE shut
    /\ UNCHANGED <<buffer, subscribers, nalloc, buf, closed, msg, todo, task, panicked, npub, blocked, tk, errvars>>

\* Publish as it would be without p.m.Lock().
PublishNoLock(p, v) ==
    /\ Alive
    /\ pc[p] = "idle"
    /\ npub < MaxPublish
    /\ npub' = npub + 1
    /\ msg' = [msg EXCEPT ![p] = v]
    /\ snap' = [snap EXCEPT ![p] = DOMAIN subscribers]
    /\ task' = [task EXCEPT ![p] =
                   [c \in DOMAIN subscribers |->
                       [topic |-> subscribers[c], st |-> "start", elapsed |-> 0]]]
    /\ pc' = [pc EXCEPT ![p] = "Wait"]
    /\ tk' = [tk EXCEPT ![p] = Acquired + 1]
    /\ UNCHANGED <<buffer, subscribers, mutex, nalloc, buf, closed, todo, panicked, blocked, shut, errvars>>

\* Publish as it would be with the mutex released at the end of the range
\* loop (p.m.Unlock() before wg.Wait() instead of the deferred Unlock).
PublishUnlockEarly(p, v) ==
    /\ Alive
    /\ pc[p] = "idle"
    /\ npub < MaxPublish
    /\ npub' = npub + 1
    /\ mutex = 0
    /\ mutex' = 0
    /\ msg' = [msg EXCEPT ![p] = v]
    /\ snap' = [snap EXCEPT ![p] = DOMAIN subscribers]
    /\ task' = [task EXCEPT ![p] =
                   [c \in DOMAIN subscribers |->
                       [topic |-> subscribers[c], st |-> "start", elapsed |-> 0]]]
    /\ pc' = [pc EXCEPT ![p] = "Wait"]
    /\ tk' = [tk EXCEPT ![p] = Acquired + 1]
    /\ UNCHANGED <<buffer, subscribers, nalloc, buf, closed, todo, panicked, blocked, shut, errvars>>

\* Publish(v): p.m.Lock() and the range loop, which starts one SendTopic
\* goroutine per entry of the map (wg.Add(1); go p.SendTopic(sub, topic, v, &wg)).
Publish(p, v) ==
    /\ Alive
    /\ pc[p] = "idle"
    /\ npub < MaxPublish
    /\ npub' = npub + 1
    /\ mutex = 0
    /\ mutex' = p
    /\ msg' = [msg EXCEPT ![p] = v]
    /\ snap' = [snap EXCEPT ![p] = DOMAIN subscribers]
    /\ task' = [task EXCEPT ![p] =
                   [c \in DOMAIN subscribers |->
                       [topic |-> subscribers[c], st |-> "start", elapsed |-> 0]]]
    /\ pc' = [pc EXCEPT ![p] = "Wait"]
    /\ tk' = [tk EXCEPT ![p] = Acquired + 1]
    /\ UNCHANGED <<buffer, subscribers, nalloc, buf, closed, todo, panicked, blocked, shut, errvars>>

\* Publish(v) called while another caller holds the mutex: p.m.Lock() blocks.
PublishLockWait(p, v) ==
    /\ Alive
    /\ pc[p] = "idle"
    /\ npub < MaxPublish
    /\ npub' = npub + 1
    /\ mutex # 0
    /\ msg' = [msg EXCEPT ![p] = v]
    /\ pc' = [pc EXCEPT ![p] = "Lock"]
    /\ UNCHANGED <<buffer, subscribers, mutex, nalloc, buf, closed, todo, snap, task, panicked, blocked, tk, shut, errvars>>

\* PublishLocked as it would be with a read lock (p.m.RLock()), which a
\* Publish in flight does not hold back.
PublishLockedShared(p) ==
    /\ Alive
    /\ pc[p] = "Lock"
    /\ mutex = 0 \/ pc[mutex] = "Wait"
    /\ mutex' = p
    /\ snap' = [snap EXCEPT ![p] = DOMAIN subscribers]
    /\ task' = [task EXCEPT ![p] =
                   [c \in DOMAIN subscribers |->
                       [topic |-> subscribers[c], st |-> "start", elapsed |-> 0]]]
    /\ pc' = [pc EXCEPT ![p] = "Wait"]
    /\ tk' = [tk EXCEPT ![p] = Acquired + 1]
    /\ UNCHANGED <<buffer, subscribers, nalloc, buf, closed, msg, todo, panicked, npub, blocked, shut, errvars>>

\* PublishLocked as it would be with a range loop that stops after its
\* first entry (a break at the end of the loop body).
PublishLockedFirstOnly(p) ==
    /\ Alive
    /\ pc[p] = "Lock"
    /\ mutex = 0
    /\ mutex' = p
    /\ snap' = [snap EXCEPT ![p] = DOMAIN subscribers]
    /\ \E first \in SUBSET DOMAIN subscribers :
          /\ Cardinality(first) = IF DOMAIN subscribers = {} THEN 0 ELSE 1
          /\ task' = [task EXCEPT ![p] =
                         [c \in first |->
                             [topic |-> subscribers[c], st |-> "start", elapsed |-> 0]]]
    /\ pc' = [pc EXCEPT ![p] = "Wait"]
    /\ tk' = [tk EXCEPT ![p] = Acquired + 1]
    /\ UNCHANGED <<buffer, subscribers, nalloc, buf, closed, msg, todo, panicked, npub, blocked, shut, errvars>>

\* Publish: the blocked p.m.Lock() returns once the mutex is free, and the
\* range loop starts the SendTopic goroutines.
PublishLocked(p) ==
    /\ Alive
    /\ pc[p] = "Lock"
    /\ mutex = 0
    /\ mutex' = p
    /\ snap' = [snap EXCEPT ![p] = DOMAIN subscribers]
    /\ task' = [task EXCEPT ![p] =
                   [c \in DOMAIN subscribers |->
                       [topic |-> subscribers[c], st |-> "start", elapsed |-> 0]]]
    /\ pc' = [pc EXCEPT ![p] = "Wait"]
    /\ tk' = [tk EXCEPT ![p] = Acquired + 1]
    /\ UNCHANGED <<buffer, subscribers, nalloc, buf, closed, msg, todo, panicked, npub, blocked, shut, errvars>>

\* PublishReturn as it would be without wg.Wait(): the call unlocks and
\* returns while its SendTopic goroutines run on.
PublishReturnNoWait(p) ==
    /\ Alive
    /\ pc[p] = "Wait"
    /\ mutex' = 0
    /\ snap' = [snap EXCEPT ![p] = {}]
    /\ blocked' = [blocked EXCEPT ![p] = 0]
    /\ pc' = [pc EXCEPT ![p] = "idle"]
    /\ tk' = [tk EXCEPT ![p] = 0]
    /\ UNCHANGED <<buffer, subscribers, nalloc, buf, closed, msg, todo, task, panicked, npub, shut, errvars>>

\* Publish: wg.Wait() returns once every SendTopic goroutine has called
\* wg.Done(); the deferred Unlock ends the call.
PublishReturn(p) ==
    /\ Alive
    /\ pc[p] = "Wait"
    /\ \A c \in DOMAIN task[p] : task[p][c].st \in Done
    /\ mutex' = 0
    /\ task' = [task EXCEPT ![p] = NoTasks]
    /\ snap' = [snap EXCEPT ![p] = {}]
    /\ msg' = [msg EXCEPT ![p] = NoMsg]
    /\ blocked' = [blocked EXCEPT ![p] = 0]
    /\ pc' = [pc EXCEPT ![p] = "idle"]
    /\ tk' = [tk EXCEPT ![p] = 0]
    /\ UNCHANGED <<buffer, subscribers, nalloc, buf, closed, todo, panicked, npub, shut, errvars>>

\* ------------------------------------------------------------- SendTopic

\* TimerFiredAtPoll as it would be with a duration that turns a negative
\* Expire into a long wait (time.Duration(uint32(v.Expire)) * time.Second).
TimerFiredAtPollUnsigned(expire) == IF expire = 0 THEN BOOLEAN ELSE {FALSE}

\* Whether the channel of time.After(Expire seconds) can already be received
\* from when the select polls its cases.
TimerFiredAtPoll(expire) == IF expire <= 0 THEN BOOLEAN ELSE {FALSE}

\* The cases of SendTopic's select that can proceed at the poll ("park": none).
ReadyCases(c, fired) ==
    LET ready == (IF closed[c] \/ Len(buf[c]) < buffer THEN {"send"} ELSE {})
                 \cup (IF fired THEN {"timer"} ELSE {})
    IN  IF ready = {} THEN {"park"} ELSE ready

\* The topic check as it would be without the call of topic(v).
PassesAll(topic, m) == TRUE

\* The topic check as it would be with the negation dropped: topic != nil && topic(v).
PassesInverted(topic, m) == topic = Nil \/ ~Accepts(topic, m)

\* The topic check of SendTopic: the message goes on to the select.
Passes(topic, m) == topic = Nil \/ Accepts(topic, m)

\* SendTopic as it would run if Publish called it inline (p.SendTopic(...)
\* without go): the next dispatch starts only when the previous has returned.
SendTopicInline(p, c) ==
    /\ Alive
    /\ \A d \in DOMAIN task[p] \ {c} : task[p][d].st # "wait"
    /\ c \in DOMAIN task[p]
    /\ task[p][c].st = "start"
    /\ IF ~Passes(task[p][c].topic, msg[p])
       THEN /\ task' = [task EXCEPT ![p][c].st = "skip"]
            /\ UNCHANGED <<buf, panicked>>
       ELSE \E fired \in TimerFiredAtPoll(msg[p].Expire) :
            \E case \in ReadyCases(c, fired) :
               CASE case = "send" /\ closed[c] ->
                       /\ panicked' = "send on closed channel"
                       /\ UNCHANGED <<buf, task>>
                 [] case = "send" /\ ~closed[c] ->
                       /\ buf' = [buf EXCEPT ![c] = Append(buf[c], msg[p])]
                       /\ task' = [task EXCEPT ![p][c].st = "sent"]
                       /\ UNCHANGED panicked
                 [] case = "timer" ->
                       /\ task' = [task EXCEPT ![p][c].st = "timeout"]
                       /\ UNCHANGED <<buf, panicked>>
                 [] case = "park" ->
                       /\ task' = [task EXCEPT ![p][c].st = "wait"]
                       /\ UNCHANGED <<buf, panicked>>
    /\ UNCHANGED <<buffer, subscribers, mutex, nalloc, closed, pc, msg, todo, snap, npub, blocked, tk, shut, errvars>>

\* SendTopic(sub, topic, v, wg) from its start to its return or to the point
\* where its select parks.
SendTopic(p, c) ==
    /\ Alive
    /\ c \in DOMAIN task[p]
    /\ task[p][c].st = "start"
    /\ IF ~Passes(task[p][c].topic, msg[p])
       THEN /\ task' = [task EXCEPT ![p][c].st = "skip"]
            /\ UNCHANGED <<buf, panicked>>
       ELSE \E fired \in TimerFiredAtPoll(msg[p].Expire) :
            \E case \in ReadyCases(c, fired) :
               CASE case = "send" /\ closed[c] ->
                       /\ panicked' = "send on closed channel"
                       /\ UNCHANGED <<buf, task>>
                 [] case = "send" /\ ~closed[c] ->
                       /\ buf' = [buf EXCEPT ![c] = Append(buf[c], msg[p])]
                       /\ task' = [task EXCEPT ![p][c].st = "sent"]
                       /\ UNCHANGED panicked
                 [] case = "timer" ->
                       /\ task' = [task EXCEPT ![p][c].st = "timeout"]
                       /\ UNCHANGED <<buf, panicked>>
                 [] case = "park" ->
                       /\ task' = [task EXCEPT ![p][c].st = "wait"]
                       /\ UNCHANGED <<buf, panicked>>
    /\ UNCHANGED <<buffer, subscribers, mutex, nalloc, closed, pc, msg, todo, snap, npub, blocked, tk, shut, errvars>>

\* One second passes: for every parked SendTopic whose timer has not yet run
\* out, and for every caller inside Publish (the count stops past MaxExpire).
\* No goroutine is then still on its way to its select.
Tick ==
    /\ Alive
    /\ \E p \in Procs : \E c \in DOMAIN task[p] :
          task[p][c].st = "wait" /\ task[p][c].elapsed < msg[p].Expire
    /\ \A p \in Procs : \A c \in DOMAIN task[p] : task[p][c].st # "start"
    /\ blocked' = [p \in Procs |->
                     IF pc[p] \in {"Lock", "Wait"} /\ blocked[p] <= MaxExpire
                     THEN blocked[p] + 1 ELSE blocked[p]]
    /\ task' = [p \in Procs |-> [c \in DOMAIN task[p] |->
                  IF task[p][c].st = "wait" /\ task[p][c].elapsed < msg[p].Expire
                  THEN [task[p][c] EXCEPT !.elapsed = @ + 1]
                  ELSE task[p][c]]]
    /\ UNCHANGED <<buffer, subscribers, mutex, nalloc, buf, closed, pc, msg, todo, snap, panicked, npub, tk, shut, errvars>>

\* The parked SendTopic as it would be with a select that has no timer case
\* (select { case sub <- v: }): it never gives up.
TimeoutNever(p, c) ==
    /\ Alive
    /\ c \in DOMAIN task[p]
    /\ task[p][c].st = "wait"
    /\ FALSE
    /\ UNCHANGED vars

\* Timeout as it would be with a timer that does not wait for Expire seconds
\* (time.After(time.Duration(v.Expire)), nanoseconds for seconds).
TimeoutEarly(p, c) ==
    /\ Alive
    /\ c \in DOMAIN task[p]
    /\ task[p][c].st = "wait"
    /\ task' = [task EXCEPT ![p][c].st = "timeout"]
    /\ UNCHANGED <<buffer, subscribers, mutex, nalloc, buf, closed, pc, msg, todo, snap, panicked, npub, blocked, tk, shut, errvars>>

\* Timeout as it would be if the timer case tried the send again
\* (case <-time.After(...): a new attempt) instead of returning.
TimeoutRetry(p, c) ==
    /\ Alive
    /\ c \in DOMAIN task[p]
    /\ task[p][c].st = "wait"
    /\ task[p][c].elapsed >= msg[p].Expire
    /\ task' = [task EXCEPT ![p][c].st = "start"]
    /\ UNCHANGED <<buffer, subscribers, mutex, nalloc, buf, closed, pc, msg, todo, snap, panicked, npub, blocked, tk, shut, errvars>>

\* Timeout as it would be if the timer case dropped the slow subscriber
\* (case <-time.After(...): delete(p.subscribers, sub); close(sub)).
TimeoutEvicts(p, c) ==
    /\ Alive
    /\ c \in DOMAIN task[p]
    /\ task[p][c].st = "wait"
    /\ task[p][c].elapsed >= msg[p].Expire
    /\ task' = [task EXCEPT ![p][c].st = "timeout"]
    /\ subscribers' = [d \in DOMAIN subscribers \ {c} |-> subscribers[d]]
    /\ closed' = [closed EXCEPT ![c] = TRUE]
    /\ UNCHANGED <<buffer, mutex, nalloc, buf, pc, msg, todo, snap, panicked, npub, blocked, tk, shut, errvars>>

\* The timer of a parked SendTopic fires (no earlier than Expire seconds
\* after it was made): case <-time.After(...): return.
Timeout(p, c) ==
    /\ Alive
    /\ c \in DOMAIN task[p]
    /\ task[p][c].st = "wait"
    /\ task[p][c].elapsed >= msg[p].Expire
    /\ task' = [task EXCEPT ![p][c].st = "timeout"]
    /\ UNCHANGED <<buffer, subscribers, mutex, nalloc, buf, closed, pc, msg, todo, snap, panicked, npub, blocked, tk, shut, errvars>>

\* -------------------------------------------------------------- consumer

\* The consumer of a channel SubscribeTopic returned receives a message from
\* it (msg := <-ch, or one turn of for msg := range ch).
Recv(c) ==
    /\ Alive
    /\ c \in 1..nalloc
    /\ Len(buf[c]) > 0
    /\ ChanRecv(c)
    /\ UNCHANGED <<buffer, subscribers, mutex, nalloc, closed, pc, msg, todo, snap, panicked, npub, blocked, tk, shut, errvars>>

\* ------------------------------------------------------------------ spec

Next ==
    \/ \E p \in Procs : \E topic \in Filters : SubscribeTopic(p, topic)
    \/ \E p \in Procs : Subscribe(p)
    \/ \E p \in Procs : \E sub \in Chans \cup {Foreign} : Evict(p, sub)
    \/ \E p \in Procs : Close(p)
    \/ \E p \in Procs : \E sub \in Chans : CloseIter(p, sub)
    \/ \E p \in Procs : CloseReturn(p)
    \/ \E p \in Procs : \E v \in Messages : Publish(p, v)
    \/ \E p \in Procs : \E v \in Messages : PublishLockWait(p, v)
    \/ \E p \in Procs : PublishLocked(p)
    \/ \E p \in Procs : \E c \in Chans : SendTopic(p, c)
    \/ Tick
    \/ \E p \in Procs : \E c \in Chans : Timeout(p, c)
    \/ \E p \in Procs : PublishReturn(p)
    \/ \E c \in Chans : Recv(c)

Spec == Init /\ [][Next]_vars

\* The Go scheduler runs every runnable goroutine (a started SendTopic, a
\* caller past its Lock), timers fire, and a caller blocked in Lock gets the
\* mutex once it is released often enough (sync.Mutex hands the lock to a
\* waiter that has waited for more than a millisecond).  Callers need not
\* call, and consumers need not receive.
Fairness ==
    /\ \A p \in Procs : \A c \in Chans : WF_vars(SendTopic(p, c))
    /\ \A p \in Procs : \A c \in Chans : WF_vars(Timeout(p, c))
    /\ WF_vars(Tick)
    /\ \A p \in Procs : WF_vars(PublishReturn(p))
    /\ \A p \in Procs : WF_vars(\E sub \in Chans : CloseIter(p, sub))
    /\ \A p \in Procs : WF_vars(CloseReturn(p))
    /\ \A p \in Procs : SF_vars(PublishLocked(p))

FairSpec == Spec /\ Fairness

\* ------------------------------------------------- package utils: errors

\* An error value (the interface type error).  kind "nil" is the nil
\* interface, "nilptr" an interface that holds a nil *Error, "Error" one that
\* holds a *Error with the fields Code, Message and Details, and "plain" an
\* error of another type, whose Error() returns Message.
NilErr == [kind |-> "nil", Code |-> "", Message |-> "", Details |-> ""]

\* A nil *Error: what WrapError returns for a nil err, and what that result
\* is when it is passed on as an error (a non-nil interface).
NilPtr == [kind |-> "nilptr", Code |-> "", Message |-> "", Details |-> ""]

\* errors.New(text).
ErrorsNew(text) == [kind |-> "plain", Code |-> "", Message |-> text, Details |-> ""]

\* NewError(code, message).
NewError(code, message) ==
    [kind |-> "Error", Code |-> code, Message |-> message, Details |-> ""]

\* e.WithDetails(details).
WithDetails(e, details) == [e EXCEPT !.Details = details]

ErrCodeValidation == "VALIDATION_ERROR"

\* The texts, codes, messages and details of the errors handed to the
\* functions, and the code and message given to WrapError.
Texts == {"", "original error"}

Codes == {"ORIGINAL_ERROR"}

Msgs == {"Original message"}

DetailsSet == {"", "Original details"}

WrapCodes == {"WRAP_ERROR"}

WrapMsgs == {"Wrapped message"}

ErrValues ==
    {NilErr, NilPtr}
        \cup {ErrorsNew(t) : t \in Texts}
        \cup {WithDetails(NewError(c, m), d) : c \in Codes, m \in Msgs, d \in DetailsSet}

\* The errors a caller has at hand: the values above and the result of the
\* last WrapError call.
Inputs == ErrValues \cup (IF wrapped.called /\ ~wrapped.panicked THEN {wrapped.ret} ELSE {})

\* (e *Error).Error() for a non-nil e.
ErrorError(e) ==
    IF e.Details # ""
    THEN "[" \o e.Code \o "] " \o e.Message \o ": " \o e.Details
    ELSE "[" \o e.Code \o "] " \o e.Message

\* err.Error() panics: the method of *Error reads e.Details, a nil pointer
\* dereference when the interface holds a nil *Error.
ErrorPanics(err) == err.kind = "nilptr"

\* err.Error() of a non-nil error, where it returns.
ErrText(err) == IF err.kind = "Error" THEN ErrorError(err) ELSE err.Message

\* The result of a call that may panic.
Returns(v) == [panicked |-> FALSE, ret |-> v]

Panics(v) == [panicked |-> TRUE, ret |-> v]

\* WrapError(err, code, message): nil for a nil err; else details is
\* err.Error(), replaced for a *Error by its Details or, if that is empty,
\* its Message.
WrapError(err, code, message) ==
    IF err = NilErr THEN Returns(NilPtr)
    ELSE IF ErrorPanics(err) THEN Panics(NilPtr)
    ELSE LET details ==
                 IF err.kind = "Error"
                 THEN IF err.Details = "" THEN err.Message ELSE err.Details
                 ELSE ErrText(err)
         IN  Returns(WithDetails(NewError(code, message), details))

\* A call of WrapError.
Wrap(err, code, message) ==
    /\ wrapped' = [called |-> TRUE, err |-> err, code |-> code, message |-> message,
                   panicked |-> WrapError(err, code, message).panicked,
                   ret |-> WrapError(err, code, message).ret]
    /\ UNCHANGED <<errors, added, pubvars>>

\* ec.Add as it would be without the nil check.
AddAlways(err) ==
    /\ Len(added) < MaxAdds
    /\ added' = Append(added, err)
    /\ errors' = Append(errors, err)
    /\ UNCHANGED <<wrapped, pubvars>>

\* ec.Add(err): if err != nil, append.
Add(err) ==
    /\ Len(added) < MaxAdds
    /\ added' = Append(added, err)
    /\ errors' = IF err # NilErr THEN Append(errors, err) ELSE errors
    /\ UNCHANGED <<wrapped, pubvars>>

\* ec.HasErrors().
HasErrors == Len(errors) > 0

\* ec.Errors().
Errors == errors

\* strings.Join(elems, sep).
RECURSIVE Join(_, _)
Join(elems, sep) ==
    IF elems = <<>> THEN ""
    ELSE IF Len(elems) = 1 THEN elems[1]
    ELSE elems[1] \o sep \o Join(Tail(elems), sep)

\* ec.Error(): "" for no errors, else the errors' texts joined with "; ".
CollectorError ==
    IF Len(errors) = 0 THEN Returns("")
    ELSE IF \E i \in 1..Len(errors) : ErrorPanics(errors[i]) THEN Panics("")
    ELSE Returns(Join([i \in 1..Len(errors) |-> ErrText(errors[i])], "; "))

\* ec.ToError(): nil for no errors, else a validation error whose Details
\* is ec.Error().
ToError ==
    IF Len(errors) = 0 THEN Returns(NilErr)
    ELSE IF CollectorError.panicked THEN Panics(NilErr)
    ELSE Returns(WithDetails(NewError(ErrCodeValidation, "Multiple errors occurred"),
                             CollectorError.ret))

ErrNext ==
    \/ \E err \in Inputs : Add(err)
    \/ \E err \in Inputs : \E code \in WrapCodes : \E message \in WrapMsgs :
          Wrap(err, code, message)

\* A program that uses one ErrorCollector and WrapError.
ErrSpec == Init /\ [][ErrNext]_vars

\* ---------------------------------------------------------------- claims

\* The step in which the SendTopic goroutine of p's Publish for channel c
\* runs its topic check and polls its select.
Dispatched(p, c) ==
    /\ c \in DOMAIN task[p]
    /\ task[p][c].st = "start"
    /\ c \in DOMAIN task'[p]
    /\ task'[p][c].st # "start"

\* The step in which a SendTopic goroutine's send on channel c succeeds
\* (at the poll, or parked and served by a receive).
Enqueued(p, c) ==
    /\ c \in DOMAIN task[p]
    /\ task[p][c].st \in {"start", "wait"}
    /\ c \in DOMAIN task'[p]
    /\ task'[p][c].st = "sent"

\* wg.Wait() of p's Publish has returned: the call is about to return.
Joined(p) == pc[p] = "Wait" /\ \A c \in DOMAIN task[p] : task[p][c].st \in Done

\* C1: no-filter delivery.  For every message (any Expire) and every live
\* subscription registered without a filter, a dispatch that finds free
\* capacity on the queue enqueues the message.
C1_NoFilterDelivery ==
    [][\A p \in Procs : \A c \in Chans :
          (Dispatched(p, c) /\ task[p][c].topic = Nil /\ Len(buf[c]) < buffer)
             => /\ task'[p][c].st = "sent"
                /\ buf'[c] = Append(buf[c], msg[p])]_vars

\* The step in which Evict(c) removes the live subscription c.
EvictRemoves(c) ==
    /\ mutex = 0
    /\ mutex' = 0
    /\ c \in DOMAIN subscribers
    /\ c \notin DOMAIN subscribers'

\* C2: Evict closes the queue.  After Evict(S) on a live subscription S, S is
\* not in the registry and its queue is closed, whatever the queue held.
C2_EvictClosesQueue ==
    [][\A c \in Chans : EvictRemoves(c) => closed'[c]]_vars

\* C3: shutdown closes every queue.  When Close() returns, the queue of every
\* subscription that was live when Close started is closed.
C3_CloseClosesAll ==
    \A p \in Procs :
        (pc[p] = "CloseLoop" /\ todo[p] = {}) => \A c \in snap[p] : closed[c]

\* C4: shutdown empties the registry, and a Publish on the empty registry
\* starts no dispatch (so that its wg.Wait() returns at once), and neither
\* its start nor its return changes a queue or the registry.
C4_CloseEmptiesRegistry ==
    /\ [](\A p \in Procs :
            (pc[p] = "CloseLoop" /\ todo[p] = {}) => DOMAIN subscribers = {})
    /\ [][\A p \in Procs :
            (pc[p] # "Wait" /\ pc'[p] = "Wait" /\ DOMAIN subscribers = {})
               => /\ DOMAIN task'[p] = {}
                  /\ buf' = buf
                  /\ closed' = closed
                  /\ DOMAIN subscribers' = {}]_vars
    /\ [][\A p \in Procs :
            (pc[p] = "Wait" /\ DOMAIN task[p] = {})
               => /\ pc'[p] = "idle" => (buf' = buf /\ closed' = closed)
                  /\ DOMAIN subscribers' = {}]_vars

\* C4's case: Close is about to return after it has gone through two
\* subscriptions.
C4_Witness ==
    \E p \in Procs :
        pc[p] = "CloseLoop" /\ todo[p] = {} /\ Cardinality(snap[p]) >= 2

\* C5: zero expire is a non-blocking try-send.  A dispatch of a message with
\* Expire = 0 that passes the filter enqueues the message if the queue has
\* room at that moment and is abandoned at once if it has not.
C5_ZeroExpireTrySend ==
    [][\A p \in Procs : \A c \in Chans :
          (/\ Dispatched(p, c)
           /\ msg[p].Expire = 0
           /\ task[p][c].topic # Nil => Accepts(task[p][c].topic, msg[p]))
             => IF Len(buf[c]) < buffer
                THEN task'[p][c].st = "sent" /\ buf'[c] = Append(buf[c], msg[p])
                ELSE task'[p][c].st = "timeout" /\ buf'[c] = buf[c]]_vars

\* C6: a filtered-out message has no effect.  The dispatch of a message the
\* subscription's filter rejects is skipped without touching the queue, and
\* as long as that Publish runs the queue changes only by its consumer
\* receiving from it.
C6_FilteredOutNoEffect ==
    [][\A p \in Procs : \A c \in Chans :
          (/\ c \in DOMAIN task[p]
           /\ task[p][c].topic # Nil
           /\ ~Accepts(task[p][c].topic, msg[p]))
             => /\ buf'[c] = buf[c] \/ (buf[c] # <<>> /\ buf'[c] = Tail(buf[c]))
                /\ Dispatched(p, c) => (task'[p][c].st = "skip" /\ buf'[c] = buf[c])
                /\ ~Enqueued(p, c)
                /\ c \in DOMAIN task'[p] => task'[p][c].st \in {"start", "skip"}]_vars

\* C6's case: a dispatch was skipped by its filter while the queue was full.
C6_Witness ==
    \E p \in Procs : \E c \in DOMAIN task[p] :
        /\ task[p][c].st = "skip"
        /\ task[p][c].topic # Nil
        /\ Len(buf[c]) = buffer

\* C7 as claimed: when Publish(M) returns, M has been delivered to a
\* subscription with filter F if and only if F(M) is true.
C7_DeliveredIffFilter ==
    \A p \in Procs : Joined(p) =>
        \A c \in DOMAIN task[p] :
            task[p][c].topic # Nil
               => (task[p][c].st = "sent" <=> Accepts(task[p][c].topic, msg[p]))

\* C7 as amended: M is delivered to a subscription with filter F only if
\* F(M) is true; a dispatch with F(M) false is always skipped, and one with
\* F(M) true ends with M enqueued or abandoned by its timer, never skipped.
C7_FilterCorrectness ==
    /\ [](\A p \in Procs : \A c \in DOMAIN task[p] :
            task[p][c].topic # Nil
               => /\ task[p][c].st = "sent" => Accepts(task[p][c].topic, msg[p])
                  /\ task[p][c].st = "skip" <=>
                        (task[p][c].st # "start" /\ ~Accepts(task[p][c].topic, msg[p]))
                  /\ (task[p][c].st \in Done /\ Accepts(task[p][c].topic, msg[p]))
                        => task[p][c].st \in {"sent", "timeout"})
    /\ [][\A p \in Procs : \A c \in Chans :
            (c \in DOMAIN task[p] /\ task[p][c].topic # Nil)
               => /\ Enqueued(p, c) => Accepts(task[p][c].topic, msg[p])
                  /\ (Dispatched(p, c) /\ task'[p][c].st = "sent")
                        => buf'[c] = Append(buf[c], msg[p])
                  /\ (Dispatched(p, c) /\ task'[p][c].st # "sent")
                        => buf'[c] = buf[c]]_vars

\* C7's case: a Publish has joined its dispatches with its message delivered
\* to a subscription whose filter accepts it.
C7_Witness ==
    \E p \in Procs :
        /\ Joined(p)
        /\ \E c \in DOMAIN task[p] : task[p][c].topic # Nil /\ task[p][c].st = "sent"

\* C8: no double close.  Over every interleaving of Subscribe, Evict, Close
\* and Publish, close is never executed on a closed queue.
C8_NoDoubleClose == panicked # "close of closed channel"

\* C8's case: a queue has been closed and removed, the lock is free, and
\* every caller can issue another Evict of that queue or a Close.
C8_Witness ==
    \E c \in 1..nalloc :
        /\ closed[c]
        /\ c \notin DOMAIN subscribers
        /\ mutex = 0
        /\ \E d \in DOMAIN subscribers : d # c

\* C9: a dead subscription is never delivered to.  Every dispatch that has
\* not finished targets a subscription that is in the registry with an open
\* queue, a message is enqueued only on such a queue, and no send panics.
C9_NoDeliveryToDead ==
    /\ [](/\ panicked # "send on closed channel"
          /\ \A p \in Procs : \A c \in DOMAIN task[p] :
                task[p][c].st \notin Done
                   => (c \in DOMAIN subscribers /\ ~closed[c]))
    /\ [][\A c \in Chans :
            ((\E p \in Procs : Enqueued(p, c)) \/ Len(buf'[c]) > Len(buf[c]))
               => (c \in DOMAIN subscribers /\ ~closed[c])]_vars

\* C9's case: a Publish delivers a message while another subscription has
\* already been removed.
C9_Witness ==
    \E p \in Procs : \E c \in DOMAIN task[p] : \E d \in 1..nalloc :
        /\ task[p][c].st = "sent"
        /\ d \notin DOMAIN subscribers

\* C10: the registry lock is never held while a dispatch task is waiting for
\* room on a subscriber's queue.
C10_LockFreeWhileWaiting ==
    \A p \in Procs : \A c \in DOMAIN task[p] :
        task[p][c].st = "wait" => mutex = 0

\* C11: removing a subscription while a dispatch to it is waiting for queue
\* room goes ahead and ends that wait safely: whenever a dispatch of Publish
\* p is parked on queue c, a caller that is free to call Evict(c) can run
\* it, and once it has run the dispatch is no longer waiting and nothing
\* has panicked.
C11_RemovalUnblocksWaiter ==
    \A p \in Procs : \A c \in DOMAIN task[p] : \A q \in Procs :
        (task[p][c].st = "wait" /\ pc[q] = "idle")
           => ENABLED (/\ Evict(q, c)
                       /\ task'[p][c].st # "wait"
                       /\ panicked' = "")

\* C12: Publish joins all its dispatches.  A Publish returns only from the
\* state in which every SendTopic goroutine it started (one per entry of the
\* map at the time) has finished, with the message enqueued, skipped or
\* abandoned; outside a Publish call no goroutine of it exists, and every
\* dispatch and every enqueue happens between the start and the return of
\* its Publish.
C12_PublishJoins ==
    /\ [](\A p \in Procs :
            /\ pc[p] # "Wait" => DOMAIN task[p] = {}
            /\ pc[p] = "Wait" => DOMAIN task[p] = snap[p])
    /\ [][\A p \in Procs :
            /\ (pc[p] = "Wait" /\ pc'[p] # "Wait")
                  => /\ pc'[p] = "idle"
                     /\ \A c \in snap[p] :
                           c \in DOMAIN task[p] /\ task[p][c].st \in Done
            /\ \A c \in Chans :
                  (Dispatched(p, c) \/ Enqueued(p, c))
                     => (pc[p] = "Wait" /\ pc'[p] = "Wait")]_vars

\* C12's case: a Publish is about to return with one dispatch enqueued and
\* another abandoned by its timer.
C12_Witness ==
    \E p \in Procs : \E c, d \in DOMAIN task[p] :
        /\ Joined(p)
        /\ task[p][c].st = "sent"
        /\ task[p][d].st = "timeout"

\* C13: Publish always terminates.  A parked dispatch whose Expire seconds
\* have passed can always give up, and under Fairness every Publish call
\* that has been made (waiting for the lock or for its dispatches)
\* eventually returns, whatever the other callers do and whether or not a
\* consumer ever receives.
C13_PublishTerminates ==
    /\ [](\A p \in Procs : \A c \in DOMAIN task[p] :
            (task[p][c].st = "wait" /\ task[p][c].elapsed >= msg[p].Expire)
               => ENABLED Timeout(p, c))
    /\ \A p \in Procs : (pc[p] \in {"Lock", "Wait"}) ~> (pc[p] = "idle")

\* C13's case: a dispatch has run into its timer after waiting on a full
\* queue that nobody received from.
C13_Witness ==
    \E p \in Procs : \E c \in DOMAIN task[p] :
        /\ task[p][c].st = "timeout"
        /\ msg[p].Expire > 0
        /\ task[p][c].elapsed >= msg[p].Expire
        /\ Len(buf[c]) = buffer

C15_BlockedAtMostExpire ==
    \A p \in Procs :
        pc[p] \in {"Lock", "Wait"}
           => blocked[p] <= (IF msg[p].Expire > 0 THEN msg[p].Expire ELSE 0)

\* C16: a slow subscriber does not block a fast one within a Publish.  While
\* a dispatch of a Publish is parked on a full queue c, the dispatch of the
\* same Publish to a subscriber d that accepts the message and has room can
\* run and put the message on d's queue with c's dispatch still waiting;
\* with a positive Expire that is its only outcome; and a dispatch never
\* changes another dispatch.
C16_SlowDoesNotBlockFast ==
    /\ [](\A p \in Procs : \A c, d \in DOMAIN task[p] :
            (/\ task[p][c].st = "wait"
             /\ task[p][d].st = "start"
             /\ task[p][d].topic # Nil => Accepts(task[p][d].topic, msg[p])
             /\ Len(buf[d]) < buffer)
               => ENABLED (/\ SendTopic(p, d)
                           /\ task'[p][d].st = "sent"
                           /\ buf'[d] = Append(buf[d], msg[p])
                           /\ task'[p][c].st = "wait"))
    /\ [][\A p \in Procs : \A d \in Chans :
            Dispatched(p, d)
               => /\ \A c \in DOMAIN task[p] \ {d} :
                        c \in DOMAIN task'[p] /\ task'[p][c] = task[p][c]
                  /\ (/\ msg[p].Expire > 0
                      /\ task[p][d].topic # Nil => Accepts(task[p][d].topic, msg[p])
                      /\ Len(buf[d]) < buffer)
                        => (task'[p][d].st = "sent"
                              /\ buf'[d] = Append(buf[d], msg[p]))]_vars

\* C16's case: the message is on the fast subscriber's queue while the
\* dispatch to the slow one is still waiting on its full queue, before a
\* second of its window has passed.
C16_Witness ==
    \E p \in Procs : \E c, d \in DOMAIN task[p] :
        /\ task[p][c].st = "wait"
        /\ task[p][c].elapsed < msg[p].Expire
        /\ Len(buf[c]) = buffer
        /\ task[p][d].st = "sent"
        /\ buf[d] # <<>>
        /\ buf[d][Len(buf[d])] = msg[p]

\* C17: Evict of an absent subscription is a no-op.  For a queue that has
\* been removed already, and for one that was never registered (Foreign), an
\* Evict call that can start runs to its end and has no step that changes
\* anything: the registry, every queue's contents and closed flag, and the
\* absence of a panic stay as they are.
C17_EvictAbsentNoOp ==
    \A q \in Procs : \A sub \in {Foreign} \cup 1..nalloc :
        (sub \notin DOMAIN subscribers /\ Alive /\ pc[q] = "idle" /\ mutex = 0)
           => /\ ENABLED Evict(q, sub)
              /\ ~ENABLED (Evict(q, sub) /\ vars' # vars)

\* C17's case: a removed subscription whose queue is still open with a
\* message in it, next to the never-registered queue with its message, and
\* a caller free to call Evict on either.
C17_Witness ==
    \E c \in 1..nalloc : \E q \in Procs :
        /\ c \notin DOMAIN subscribers
        /\ ~closed[c]
        /\ buf[c] # <<>>
        /\ Foreign \notin DOMAIN subscribers
        /\ buf[Foreign] = <<ForeignMsg>>
        /\ ~closed[Foreign]
        /\ Alive /\ pc[q] = "idle" /\ mutex = 0

\* C18: at-most-once, no retry.  A dispatch polls its select once: it never
\* returns to its start, and once it has finished (enqueued, skipped,
\* abandoned) it does nothing more; a queue grows only by the one message of
\* the one dispatch that enqueues in that step, so a Publish enqueues its
\* message at most once per queue and never after the dispatch was abandoned.
C18_AtMostOnceNoRetry ==
    [][\A c \in Chans :
          /\ \A p \in Procs :
                (c \in DOMAIN task[p] /\ c \in DOMAIN task'[p])
                   => /\ task[p][c].st # "start" => task'[p][c].st # "start"
                      /\ task[p][c].st \in Done => task'[p][c] = task[p][c]
          /\ LET senders == {p \in Procs : Enqueued(p, c)}
             IN  IF senders = {}
                 THEN buf'[c] = buf[c] \/ (buf[c] # <<>> /\ buf'[c] = Tail(buf[c]))
                 ELSE \E p \in senders :
                        /\ senders = {p}
                        /\ \/ buf'[c] = Append(buf[c], msg[p])
                           \/ (buf[c] # <<>> /\ buf'[c] = Append(Tail(buf[c]), msg[p]))]_vars

\* C18's case: a dispatch was abandoned after waiting Expire > 0 seconds on
\* a full queue, the consumer has since made room, and the message is not on
\* the queue.
C18_Witness ==
    \E p \in Procs : \E c \in DOMAIN task[p] :
        /\ task[p][c].st = "timeout"
        /\ msg[p].Expire > 0
        /\ task[p][c].elapsed >= msg[p].Expire
        /\ Len(buf[c]) < buffer
        /\ \A i \in 1..Len(buf[c]) : buf[c][i] # msg[p]

\* C19: Subscribe registers exactly one fresh subscription.  A channel not
\* yet made is empty, open and unregistered; a SubscribeTopic(topic) call
\* that can start has no outcome other than: one channel that was not made
\* before is made, it is empty and open, the registry is the old one plus
\* that channel mapped to topic, and every queue and everything else is as
\* before.
C19_SubscribeRegistersFresh ==
    /\ \A c \in Chans :
          c > nalloc => (buf[c] = <<>> /\ ~closed[c] /\ c \notin DOMAIN subscribers)
    /\ \A p \in Procs : \A topic \in Topics :
          (Alive /\ pc[p] = "idle" /\ mutex = 0 /\ nalloc < MaxChans)
             => /\ ENABLED SubscribeTopic(p, topic)
                /\ ~ENABLED
                     (/\ SubscribeTopic(p, topic)
                      /\ ~ \E ch \in Chans \ (1..nalloc) :
                            /\ 1..nalloc' = 1..nalloc \cup {ch}
                            /\ buf'[ch] = <<>>
                            /\ ~closed'[ch]
                            /\ ch \notin DOMAIN subscribers
                            /\ DOMAIN subscribers' = DOMAIN subscribers \cup {ch}
                            /\ subscribers'[ch] = topic
                            /\ \A c \in DOMAIN subscribers :
                                  subscribers'[c] = subscribers[c]
                            /\ buf' = buf
                            /\ closed' = closed
                            /\ buffer' = buffer
                            /\ task' = task
                            /\ panicked' = panicked)

\* C19's case: the second Subscribe call has registered its queue next to a
\* first subscription whose queue holds a message.
C19_Witness ==
    /\ nalloc = 2
    /\ DOMAIN subscribers = {1, 2}
    /\ subscribers[1] # subscribers[2]
    /\ buf[1] # <<>>
    /\ buf[2] = <<>>

\* C20: registry invariant and terminal lifecycle.  Every queue in the
\* registry is one SubscribeTopic made and is open (the registry is a map,
\* so it holds a queue at most once); a queue that has been made and is not
\* in the registry never enters it again.
C20_RegistryInvariant ==
    /\ [](\A c \in DOMAIN subscribers : c \in 1..nalloc /\ ~closed[c])
    /\ [][\A c \in 1..nalloc :
            c \notin DOMAIN subscribers => c \notin DOMAIN subscribers']_vars

\* C20's case: a subscription has been removed and its queue closed, and a
\* subscription registered later is live with a message on its queue.
C20_Witness ==
    \E c, d \in 1..nalloc :
        /\ c < d
        /\ c \notin DOMAIN subscribers
        /\ closed[c]
        /\ d \in DOMAIN subscribers
        /\ buf[d] # <<>>

\* C23: removal keeps the queued messages.  In the step of Evict or Close
\* that takes subscription c out of the registry, the select leaves the queue
\* unclosed (its receive case) only when the queue was closed already, and
\* the messages on the queue are the same after the step as before.
C23_RemovalKeepsMessages ==
    [][\A c \in Chans :
          (c \in DOMAIN subscribers /\ c \notin DOMAIN subscribers')
             => /\ closed'[c] = closed[c] => closed[c]
                /\ buf'[c] = buf[c]]_vars

\* C24: operations exclude each other for their whole duration.  A Publish
\* holds the mutex from the start of its range loop until all its SendTopic
\* goroutines have returned; the goroutines of two Publish calls are never in
\* flight together; and while a Publish is between the start of its loop and
\* the return of its last goroutine, no step changes the registry (no
\* Subscribe, Evict or Close takes effect), closes a queue or makes one.
C24_WholeDurationExclusive ==
    /\ [](\A p \in Procs : pc[p] = "Wait" => mutex = p)
    /\ [](\A p, q \in Procs :
            (p # q /\ DOMAIN task[p] # {}) => DOMAIN task[q] = {})
    /\ [][\A p \in Procs :
            pc[p] = "Wait"
               => /\ subscribers' = subscribers
                  /\ closed' = closed
                  /\ nalloc' = nalloc
                  /\ (mutex' # p => Joined(p))]_vars

\* C24's case: a Publish holds the mutex with a goroutine parked on a full
\* queue, and the Publish call of another caller is blocked in Lock.
C24_Witness ==
    \E p, q \in Procs : \E c \in Chans :
        /\ pc[p] = "Wait"
        /\ mutex = p
        /\ c \in DOMAIN task[p]
        /\ task[p][c].st = "wait"
        /\ pc[q] = "Lock"

\* C25: Publish delivers to a snapshot.  The step in which a Publish takes
\* the registry starts exactly one dispatch per subscription registered at
\* that moment, each with the filter registered then and none for any other
\* queue; the set stays as it is until the call returns, each of these
\* dispatches is attempted (none is still unstarted when the call returns),
\* and a message is only ever enqueued on a queue of that set, so that a
\* subscription registered later does not receive it.
C25_SnapshotDelivery ==
    /\ [][\A p \in Procs :
            (pc[p] # "Wait" /\ pc'[p] = "Wait")
               => /\ DOMAIN task'[p] = DOMAIN subscribers
                  /\ snap'[p] = DOMAIN subscribers
                  /\ \A c \in DOMAIN subscribers :
                        /\ task'[p][c].topic = subscribers[c]
                        /\ task'[p][c].st = "start"]_vars
    /\ [][\A p \in Procs :
            (pc[p] = "Wait" /\ pc'[p] = "Wait")
               => /\ DOMAIN task'[p] = DOMAIN task[p]
                  /\ snap'[p] = snap[p]]_vars
    /\ [][\A p \in Procs :
            (pc[p] = "Wait" /\ pc'[p] # "Wait")
               => \A c \in snap[p] : task[p][c].st \in Done]_vars
    /\ [][\A c \in Chans :
            (Len(buf'[c]) > 0 /\ buf'[c] # buf[c] /\ Len(buf'[c]) >= Len(buf[c]))
               => \E p \in Procs :
                     /\ pc[p] = "Wait"
                     /\ c \in snap[p]
                     /\ Enqueued(p, c)
                     /\ buf'[c][Len(buf'[c])] = msg[p]]_vars

\* C25's case: a Publish that found two subscriptions has enqueued its
\* message on both queues, and its goroutines have returned.
C25_Witness ==
    \E p \in Procs :
        /\ Joined(p)
        /\ snap[p] = {1, 2}
        /\ \A c \in snap[p] :
              /\ task[p][c].st = "sent"
              /\ Len(buf[c]) > 0
              /\ buf[c][Len(buf[c])] = msg[p]

\* C26: consistent delivery order.  The Publish calls are ranked by the order
\* in which they took the registry (tk).  A Publish in flight is always the
\* one that took the registry last, every send that proceeds is a send of
\* that Publish and puts its message at the tail of the queue behind all the
\* messages that were there, and messages leave a queue at its head only.
\* So on every queue the messages stand, and are received, in the order in
\* which their Publish calls took the registry, which is one order for all
\* the subscribers, also for Publish calls made concurrently.
C26_ConsistentOrder ==
    /\ [](\A p \in Procs :
            /\ pc[p] = "Wait" => tk[p] = Acquired
            /\ pc[p] # "Wait" => tk[p] = 0 /\ DOMAIN task[p] = {})
    /\ [][/\ Acquired' \in {Acquired, Acquired + 1}
          /\ \A p \in Procs :
                (pc[p] # "Wait" /\ pc'[p] = "Wait")
                   => Acquired' = Acquired + 1 /\ tk'[p] = Acquired']_vars
    /\ [][\A p \in Procs : \A c \in Chans :
            Enqueued(p, c)
               => /\ tk[p] = Acquired
                  /\ Acquired' = Acquired
                  /\ \/ buf'[c] = Append(buf[c], msg[p])
                     \/ buf[c] # <<>> /\ buf'[c] = Append(Tail(buf[c]), msg[p])]_vars
    /\ [][\A c \in Chans :
            \/ buf'[c] = buf[c]
            \/ buf[c] # <<>> /\ buf'[c] = Tail(buf[c])
            \/ \E p \in Procs : Enqueued(p, c)]_vars

\* C26's case: the second Publish to take the registry has enqueued on both
\* queues; each queue holds the message of the first with the message of the
\* second behind it, and the two messages differ.
C26_Witness ==
    \E q \in Procs :
        /\ Joined(q)
        /\ tk[q] = 2
        /\ snap[q] = {1, 2}
        /\ \A c \in {1, 2} :
              /\ task[q][c].st = "sent"
              /\ Len(buf[c]) = 2
              /\ buf[c][2] = msg[q]
              /\ buf[c][1] # msg[q]

\* C27: Subscribe after Close works.  Once a Close has returned (shut > 0):
\* a Subscribe call that can start registers a new subscription with an
\* empty, open queue; a dispatch of a later Publish to a subscription whose
\* filter accepts the message and whose queue has room enqueues the message;
\* and no step of a Publish changes a queue that is not in the registry (the
\* queues Close removed among them): such a queue changes only by its
\* consumer receiving its oldest message.
C27_SubscribeAfterClose ==
    /\ [](\A p \in Procs :
            (shut > 0 /\ Alive /\ pc[p] = "idle" /\ mutex = 0 /\ nalloc < MaxChans)
               => /\ ENABLED Subscribe(p)
                  /\ ~ENABLED
                       (/\ Subscribe(p)
                        /\ ~ (/\ nalloc' = nalloc + 1
                              /\ DOMAIN subscribers' = DOMAIN subscribers \cup {nalloc'}
                              /\ nalloc' \notin DOMAIN subscribers
                              /\ buf'[nalloc'] = <<>>
                              /\ ~closed'[nalloc'])))
    /\ [][\A p \in Procs : \A c \in Chans :
            (/\ shut > 0
             /\ Dispatched(p, c)
             /\ task[p][c].topic # Nil => Accepts(task[p][c].topic, msg[p])
             /\ Len(buf[c]) < buffer)
               => /\ task'[p][c].st = "sent"
                  /\ buf'[c] = Append(buf[c], msg[p])]_vars
    /\ [][\A d \in 1..nalloc :
            (shut > 0 /\ d \notin DOMAIN subscribers)
               => /\ closed'[d] = closed[d]
                  /\ \/ buf'[d] = buf[d]
                     \/ buf[d] # <<>> /\ buf'[d] = Tail(buf[d])]_vars

C29_PublishOnlyQueues ==
    /\ [][(\E p \in Procs :
             \/ pc'[p] # pc[p] /\ "Wait" \in {pc[p], pc'[p]}
             \/ pc'[p] # pc[p] /\ pc'[p] = "Lock"
             \/ task'[p] # task[p])
            => /\ subscribers' = subscribers
               /\ closed' = closed
               /\ nalloc' = nalloc
               /\ panicked' = panicked]_vars
    /\ [](\A p \in Procs : pc[p] = "Wait" => DOMAIN subscribers = snap[p])
    /\ [](\A p \in Procs : \A c \in DOMAIN task[p] :
            /\ c \in DOMAIN subscribers
            /\ subscribers[c] = task[p][c].topic
            /\ ~closed[c])

\* C29's case: a Publish over two subscriptions with different filters is
\* about to return, having enqueued on one queue and skipped the other; both
\* are registered with their filters and open.
C29_Witness ==
    \E p \in Procs : \E c, d \in DOMAIN task[p] :
        /\ Joined(p)
        /\ task[p][c].st = "sent"
        /\ task[p][d].st = "skip"
        /\ {c, d} = DOMAIN subscribers
        /\ subscribers[c] # subscribers[d]
        /\ ~closed[c] /\ ~closed[d]

\* C30: Evict is local.  The step in which Evict(c) removes subscription c
\* leaves every other subscription registered with its filter,
\* removes or registers no other queue, and leaves every other queue (the
\* unregistered ones too) open or closed as it was, with the same messages.
C30_EvictLocal ==
    [][\A c \in Chans :
          EvictRemoves(c)
             => /\ DOMAIN subscribers' = DOMAIN subscribers \ {c}
                /\ \A d \in DOMAIN subscribers' : subscribers'[d] = subscribers[d]
                /\ \A d \in (Chans \cup {Foreign}) \ {c} :
                      /\ closed'[d] = closed[d]
                      /\ buf'[d] = buf[d]
                /\ nalloc' = nalloc
                /\ task' = task]_vars

\* C30's case: queue 1 was evicted when it held the messages of two Publish
\* calls (one is left on it); queue 2 still is registered, open, with its
\* filter and the two messages.
C30_Witness ==
    /\ shut = 0
    /\ mutex = 0
    /\ npub = 2
    /\ 1 \notin DOMAIN subscribers
    /\ Len(buf[1]) = 1
    /\ DOMAIN subscribers = {2}
    /\ subscribers[2] # Nil
    /\ ~closed[2]
    /\ Len(buf[2]) = 2

NonNil(err) == err # NilErr

\* C22 as stated: after any sequence of Add calls, Errors() is the sequence
\* of the non-nil errors added, in the order added; HasErrors() is true
\* exactly if a non-nil error was added; and Error() returns "" exactly if
\* the collector is empty, as ToError() returns nil exactly if it is.
C22_CollectorAsStated ==
    /\ Errors = SelectSeq(added, NonNil)
    /\ HasErrors <=> \E i \in 1..Len(added) : NonNil(added[i])
    /\ CollectorError = Returns("") <=> errors = <<>>
    /\ ToError = Returns(NilErr) <=> errors = <<>>

\* C22, amended: after any sequence of Add calls, Errors() is the sequence
\* of the added errors that are not the nil interface (a nil *Error in an
\* interface is one of them), in the order added; HasErrors() is true exactly
\* if there is one.  For an empty collector Error() returns "" and ToError()
\* returns nil.  For a collector that is not empty, Error() and ToError()
\* panic exactly if it holds a nil *Error; otherwise Error() returns the
\* texts of the collected errors joined with "; ", which is "" exactly if the
\* collector holds a single error whose text is empty, and ToError() returns
\* a non-nil error with code VALIDATION_ERROR and that string as Details.
\* So ToError() returns nil exactly if the collector is empty.
C22_Collector ==
    /\ Errors = SelectSeq(added, NonNil)
    /\ HasErrors <=> \E i \in 1..Len(added) : NonNil(added[i])
    /\ errors = <<>> => CollectorError = Returns("") /\ ToError = Returns(NilErr)
    /\ errors # <<>>
          => /\ CollectorError.panicked <=> \E i \in 1..Len(errors) : errors[i] = NilPtr
             /\ ToError.panicked <=> CollectorError.panicked
             /\ ToError # Returns(NilErr)
             /\ ~CollectorError.panicked
                   => /\ CollectorError.ret = ""
                         <=> Len(errors) = 1 /\ ErrText(errors[1]) = ""
                      /\ Len(errors) = 1 => CollectorError.ret = ErrText(errors[1])
                      /\ Len(errors) = 2
                            => CollectorError.ret =
                                  ErrText(errors[1]) \o "; " \o ErrText(errors[2])
                      /\ ToError.ret.kind = "Error"
                      /\ ToError.ret.Code = ErrCodeValidation
                      /\ ToError.ret.Details = CollectorError.ret

\* C22's case: three Add calls, the second with nil; the collector holds the
\* first and the third error, in that order, and they differ.
C22_Witness ==
    /\ Len(added) = 3
    /\ added[2] = NilErr
    /\ errors = <<added[1], added[3]>>
    /\ added[1] # added[3]
    /\ added[1].kind = "Error"
    /\ added[3].kind = "plain"
    /\ ~CollectorError.panicked

=============================================================================
